---- MODULE Spec2Model ----
(***************************************************************************)
(* A model of numeric::float16_t (src/float16_t.hpp): the bit-level        *)
(* conversions between IEEE-754 binary16 and binary32, and the operators   *)
(* and classification predicates built on them.                           *)
(*                                                                         *)
(* A 16-bit pattern (float16::bits_) is a natural number below 2^16.  A    *)
(* binary32 value (union float32) is the record of its ieee_ bit-fields    *)
(* [sign_, exp_, frac_]; its 32-bit word bits_ is                          *)
(* sign_ * 2^31 + exp_ * 2^23 + frac_.  Bit 31 is always carried           *)
(* separately, so every number of the model stays below 2^31.              *)
(*                                                                         *)
(* Every function of the library is pure.  The state machine is a caller   *)
(* that invokes one function at a time: pc names the call whose arguments  *)
(* and result the other variables hold.                                    *)
(***************************************************************************)
EXTENDS Integers, FiniteSets

VARIABLES
    pc,     \* "idle", or the name of the call just made
    a,      \* first float16_t argument (data_.bits_)
    b,      \* second float16_t argument (data_.bits_)
    s,      \* float argument
    r16,    \* float16_t result (data_.bits_)
    r32,    \* float result
    rb      \* boolean results

vars == <<pc, a, b, s, r16, r32, rb>>

----------------------------------------------------------------------------
(* Bounds of the sampled inputs.                                           *)

\* fractions are taken within FracSpan of each anchor fraction
FracSpan == 2
\* binary32 exponent fields are taken within ExpSpan of each anchor exponent
ExpSpan == 1

----------------------------------------------------------------------------
(* The C++ integer operators, on naturals below 2^31.                      *)

RECURSIVE And(_, _)
And(x, y) ==
    IF x = 0 \/ y = 0 THEN 0
    ELSE (x % 2) * (y % 2) + 2 * And(x \div 2, y \div 2)

RECURSIVE Or(_, _)
Or(x, y) ==
    IF x = 0 THEN y
    ELSE IF y = 0 THEN x
    ELSE (IF x % 2 = 1 \/ y % 2 = 1 THEN 1 ELSE 0) + 2 * Or(x \div 2, y \div 2)

RECURSIVE Xor(_, _)
Xor(x, y) ==
    IF x = 0 THEN y
    ELSE IF y = 0 THEN x
    ELSE ((x + y) % 2) + 2 * Xor(x \div 2, y \div 2)

Shr(x, n) == x \div (2 ^ n)

\* no left shift of the code moves a set bit to bit 31 or beyond
Shl(x, n) == x * (2 ^ n)

----------------------------------------------------------------------------
(* union float16 and union float32.                                        *)

\* static_cast<std::uint16_t>( val )
to_float16(val) == val % 65536

\* the ieee_ view of float16::bits_
frac16(bits) == bits % 1024
exp16(bits) == (bits \div 1024) % 32
sign16(bits) == (bits \div 32768) % 2

\* float32{ word }: sign is bit 31 of the word, low31 its bits 30..0
MakeFloat32(sign, low31) ==
    [sign_ |-> sign, exp_ |-> (low31 \div 8388608) % 256, frac_ |-> low31 % 8388608]

\* float32::bits_ & 0x7fffffff
Low31(f) == f.exp_ * 8388608 + f.frac_

----------------------------------------------------------------------------
(* float32_to_float16                                                      *)

\* nan_bit of the NaN/infinity branch
NanBit_Dropped(coef) == 0

NanBit(coef) == IF coef # 0 THEN \H200 ELSE 0

\* the test that sends a finite input to infinity
OverflowsHalf(half_exponent) == half_exponent = \H1f

\* the rounding test of the subnormal and of the normal branch
RoundsUp_HalfUp(c, round_bit) ==
    And(c, round_bit) # 0 /\ And(c, 2 * round_bit - 1) # 0

RoundsUp_Truncate(c, round_bit) == FALSE

RoundsUp(c, round_bit) ==
    And(c, round_bit) # 0 /\ And(c, 3 * round_bit - 1) # 0

float32_to_float16(input) ==
    LET u31      == Low31(input)
        sign     == input.sign_            \* bit 31 of u32 & 0x80000000
        exponent == And(u31, \H7f800000)
        coef     == And(u31, \H7fffff)
    IN  IF exponent = \H7f800000
        THEN to_float16(Or(Or(Or(sign * \H8000, \H7c00), NanBit(coef)), Shr(coef, 13)))
        ELSE
        LET half_sign         == sign * \H8000     \* sign >> 16
            unbiased_exponent == Shr(exponent, 23) - 127
            half_exponent     == unbiased_exponent + 15
        IN  IF OverflowsHalf(half_exponent)
            THEN to_float16(Or(half_sign, \H7c00))
            ELSE IF half_exponent <= 0
            THEN IF half_exponent < -10
                 THEN to_float16(half_sign)
                 ELSE LET c         == Or(coef, \H800000)
                          half_coef == Shr(c, 14 - half_exponent)
                          round_bit == Shl(1, 13 - half_exponent)
                      IN  to_float16(Or(half_sign,
                              IF RoundsUp(c, round_bit) THEN half_coef + 1 ELSE half_coef))
            ELSE LET uhalf_exponent == Shl(half_exponent, 10)
                     half_coef      == Shr(coef, 13)
                     round_bit      == \H1000
                     packed         == Or(Or(half_sign, uhalf_exponent), half_coef)
                 IN  IF RoundsUp(coef, round_bit)
                     THEN to_float16(packed + 1)
                     ELSE to_float16(packed)

----------------------------------------------------------------------------
(* float16_to_float32                                                      *)

\* the loop of the subnormal branch, on <<coef, exponent>>.  Only bits 30..0
\* of coef are kept: bit 31 is neither tested by the loop nor kept by the
\* coef &= 0x7fffff that follows it.
RECURSIVE Renormalize(_, _)
Renormalize(coef, exponent) ==
    IF And(coef, \H7f800000) # 0
    THEN Renormalize((coef % 1073741824) * 2, exponent - 1)
    ELSE <<coef, exponent>>

\* exponent + 0x70
Rebias_Off(exponent) == exponent + \H7f

Rebias(exponent) == exponent + \H70

\* float32{ sign | ( exponent + 0x70 ) << 23 | coef }, exponent a uint32
PackFloat32(sign, exponent, coef) ==
    LET e == Rebias(exponent) % 512        \* the bits that << 23 keeps
    IN  MakeFloat32(Or(sign, e \div 256), Or((e % 256) * 8388608, coef))

\* the NaN/infinity branch
WidenNanInf_Collapse(sign, coef) == MakeFloat32(sign, \H7f800000)

WidenNanInf(sign, coef) ==
    IF coef = 0
    THEN MakeFloat32(sign, Or(\H7f800000, coef))
    ELSE MakeFloat32(sign, Or(\H7fc00000, coef))

float16_to_float32(input) ==
    LET sign     == Shr(And(input, \H8000), 15)    \* bit 31 of ( input & 0x8000 ) << 16
        exponent == Shr(And(input, \H7c00), 10)
        coef     == Shl(And(input, \H3ff), 13)
    IN  IF exponent = \H1f
        THEN WidenNanInf(sign, coef)
        ELSE IF exponent = 0
        THEN IF coef = 0
             THEN MakeFloat32(sign, 0)
             ELSE LET n == Renormalize(coef, exponent + 1)
                  IN  PackFloat32(sign, n[2], And(n[1], \H7fffff))
        ELSE PackFloat32(sign, exponent, coef)

----------------------------------------------------------------------------
(* struct float16_t: conversions, negation, comparison.                    *)

\* float16_t( float other )
FromFloat(other) == float32_to_float16(other)

\* operator float()
ToFloat(bits) == float16_to_float32(bits)

\* operator - ()
operator_neg_SetSign(bits) == to_float16(Or(bits, \H8000))

operator_neg(bits) == to_float16(Or(And(bits, \H7fff), Xor(bits, \H8000)))

\* The built-in comparisons of two float values.  A NaN is unordered; all
\* other values are ordered as their sign-magnitude words, the two zeros equal.
IsNaN32(f) == f.exp_ = 255 /\ f.frac_ # 0
Key32(f) == IF f.sign_ = 1 THEN 0 - Low31(f) ELSE Low31(f)
FloatLess(f1, f2) == ~IsNaN32(f1) /\ ~IsNaN32(f2) /\ Key32(f1) < Key32(f2)
FloatEqual(f1, f2) == ~IsNaN32(f1) /\ ~IsNaN32(f2) /\ Key32(f1) = Key32(f2)

operator_lt(lhs, rhs) == FloatLess(ToFloat(lhs), ToFloat(rhs))
operator_le(lhs, rhs) ==
    FloatLess(ToFloat(lhs), ToFloat(rhs)) \/ FloatEqual(ToFloat(lhs), ToFloat(rhs))

operator_eq(lhs, rhs) == FloatEqual(ToFloat(lhs), ToFloat(rhs))
operator_gt(lhs, rhs) == FloatLess(ToFloat(rhs), ToFloat(lhs))
operator_ge(lhs, rhs) ==
    FloatLess(ToFloat(rhs), ToFloat(lhs)) \/ FloatEqual(ToFloat(lhs), ToFloat(rhs))
operator_ne(lhs, rhs) == ~FloatEqual(ToFloat(lhs), ToFloat(rhs))

----------------------------------------------------------------------------
(* The math wrappers fmax and fmin.                                        *)

\* std::fmax( f1, f2 ): the set of results the host library may return.  A
\* NaN argument is treated as missing; of two arguments that compare equal
\* (the two zeros) either may be returned.
std_fmax(f1, f2) ==
    IF IsNaN32(f1) THEN {f2}
    ELSE IF IsNaN32(f2) THEN {f1}
    ELSE IF FloatLess(f1, f2) THEN {f2}
    ELSE IF FloatLess(f2, f1) THEN {f1}
    ELSE {f1, f2}

\* make_binary_function( func )( f1, f2 ), func given by its result set
make_binary_function(func_results) == {FromFloat(v) : v \in func_results}

fmax(f1, f2) == make_binary_function(std_fmax(ToFloat(f1), ToFloat(f2)))
fmin(f1, f2) == make_binary_function(std_fmax(ToFloat(f1), ToFloat(f2)))

----------------------------------------------------------------------------
(* The classification predicates.                                          *)

is_nan(f16) == And(f16, \H7fff) > \H7f80
is_inf(f16) == And(f16, \H7fff) = \H7f80
is_finite(f16) == And(f16, \H7f80) # \H7f80
is_normal(f16) ==
    LET exponent == And(f16, \H7f80)
    IN  exponent # \H7f80 /\ exponent # 0
is_positive(f16) == And(f16, \H8000) = 0
is_negative(f16) == And(f16, \H8000) # 0

----------------------------------------------------------------------------
(* The named constants.                                                    *)

fp16_infinity == \H7c00
fp16_max == \H7bff
fp16_max_subnormal == \H3ff
fp16_min_positive == \H400
fp16_min_positive_subnormal == \H1
fp16_nan == \H7e00
fp16_infinity_negative == \Hfc00
fp16_one == \H3c00
fp16_zero == \H0
fp16_zero_negative == \H8000

----------------------------------------------------------------------------
(* The sampled inputs.                                                     *)

Near(x, max) == {v \in (x - FracSpan)..(x + FracSpan) : 0 <= v /\ v <= max}

\* 10-bit fractions: the ends, the quiet-NaN bit, the classification masks'
\* bits, and every position of the leading bit
Frac16Samples ==
    UNION {Near(x, 1023) : x \in {0, \H80, \H200, \H380, \H3ff} \cup {2 ^ k : k \in 0..9}}

Half16Inputs ==
    {sg * 32768 + e * 1024 + f : sg \in 0..1, e \in 0..31, f \in Frac16Samples}

\* operands of the two-argument calls
PairExps == {0, 1, 15, 16, 30, 31}
PairInputs ==
    {sg * 32768 + e * 1024 + f :
        sg \in 0..1, e \in PairExps, f \in (0..FracSpan) \cup {\H200, \H3ff}}

\* binary32 exponent fields: zero and subnormals, every exponent of the
\* half subnormal range, 1.0, the top of the half range and beyond it,
\* the largest finite exponent, and infinity/NaN
Exp32Samples ==
    UNION {{e \in (x - ExpSpan)..(x + ExpSpan) : 0 <= e /\ e <= 255} :
              x \in {0, 102, 112, 127, 142, 144, 255}}
    \cup (102..112) \cup {159, 175, 254}

\* 23-bit fractions: the ends and, for every position k of the rounding bit,
\* the tie below an even and below an odd kept value and the all-ones carry
Frac32Samples ==
    UNION {Near(x, 8388607) :
              x \in {0, 8388607}
                    \cup {2 ^ k : k \in 12..22}
                    \cup {3 * 2 ^ k : k \in 12..21}
                    \cup {8388608 - 2 ^ k : k \in 12..22}}

\* the binary32 values nearest to 65520.0, 5.96e-8 and 6.1e-5
F_65520 == [sign_ |-> 0, exp_ |-> 142, frac_ |-> \H7ff000]
F_5_96eM8 == [sign_ |-> 0, exp_ |-> 102, frac_ |-> \H7ffae5]
F_6_1eM5 == [sign_ |-> 0, exp_ |-> 112, frac_ |-> \H7fda40]

Float32Inputs ==
    [sign_ : 0..1, exp_ : Exp32Samples, frac_ : Frac32Samples]
    \cup {F_65520, F_5_96eM8, F_6_1eM5}

----------------------------------------------------------------------------
(* The calls.                                                              *)

NoFloat == [sign_ |-> 0, exp_ |-> 0, frac_ |-> 0]
NoFlags == [none |-> TRUE]

Init ==
    /\ pc = "idle"
    /\ a = 0
    /\ b = 0
    /\ s = NoFloat
    /\ r16 = 0
    /\ r32 = NoFloat
    /\ rb = NoFlags

\* float( float16_t{ h } )
Widen ==
    /\ pc = "idle"
    /\ \E h \in Half16Inputs :
        /\ a' = h
        /\ r32' = ToFloat(h)
    /\ pc' = "widen"
    /\ UNCHANGED <<b, s, r16, rb>>

\* float16_t{ f }
Narrow ==
    /\ pc = "idle"
    /\ \E f \in Float32Inputs :
        /\ s' = f
        /\ r16' = FromFloat(f)
    /\ pc' = "narrow"
    /\ UNCHANGED <<a, b, r32, rb>>

\* float16_t{ float( float16_t{ h } ) }
RoundTrip ==
    /\ pc = "idle"
    /\ \E h \in Half16Inputs :
        /\ a' = h
        /\ r32' = ToFloat(h)
        /\ r16' = FromFloat(ToFloat(h))
    /\ pc' = "roundtrip"
    /\ UNCHANGED <<b, s, rb>>

\* -float16_t{ h }
Negate ==
    /\ pc = "idle"
    /\ \E h \in Half16Inputs :
        /\ a' = h
        /\ r16' = operator_neg(h)
    /\ pc' = "negate"
    /\ UNCHANGED <<b, s, r32, rb>>

\* the six comparison operators on one pair of operands
Compare ==
    /\ pc = "idle"
    /\ \E x \in PairInputs, y \in PairInputs :
        /\ a' = x
        /\ b' = y
        /\ rb' = [lt |-> operator_lt(x, y), le |-> operator_le(x, y),
                  eq |-> operator_eq(x, y), gt |-> operator_gt(x, y),
                  ge |-> operator_ge(x, y), ne |-> operator_ne(x, y)]
    /\ pc' = "compare"
    /\ UNCHANGED <<s, r16, r32>>

\* fmax( x, y )
Fmax ==
    /\ pc = "idle"
    /\ \E x \in PairInputs, y \in PairInputs :
        /\ a' = x
        /\ b' = y
        /\ r16' \in fmax(x, y)
    /\ pc' = "fmax"
    /\ UNCHANGED <<s, r32, rb>>

\* fmin( x, y )
Fmin ==
    /\ pc = "idle"
    /\ \E x \in PairInputs, y \in PairInputs :
        /\ a' = x
        /\ b' = y
        /\ r16' \in fmin(x, y)
    /\ pc' = "fmin"
    /\ UNCHANGED <<s, r32, rb>>

\* the classification predicates on one value
Classify ==
    /\ pc = "idle"
    /\ \E h \in Half16Inputs :
        /\ a' = h
        /\ rb' = [nan |-> is_nan(h), inf |-> is_inf(h), finite |-> is_finite(h),
                  normal |-> is_normal(h), positive |-> is_positive(h),
                  negative |-> is_negative(h)]
    /\ pc' = "classify"
    /\ UNCHANGED <<b, s, r16, r32>>

\* the caller drops the result and is ready for the next call
Return ==
    /\ pc # "idle"
    /\ pc' = "idle"
    /\ a' = 0
    /\ b' = 0
    /\ s' = NoFloat
    /\ r16' = 0
    /\ r32' = NoFloat
    /\ rb' = NoFlags

Next ==
    \/ Widen
    \/ Narrow
    \/ RoundTrip
    \/ Negate
    \/ Compare
    \/ Fmax
    \/ Fmin
    \/ Classify
    \/ Return

Spec == Init /\ [][Next]_vars

TypeOK ==
    /\ pc \in {"idle", "widen", "narrow", "roundtrip", "negate", "compare",
               "fmax", "fmin", "classify"}
    /\ a \in 0..65535
    /\ b \in 0..65535
    /\ r16 \in 0..65535
    /\ s.sign_ \in 0..1 /\ s.exp_ \in 0..255 /\ s.frac_ \in 0..8388607
    /\ r32.sign_ \in 0..1 /\ r32.exp_ \in 0..255 /\ r32.frac_ \in 0..8388607

----------------------------------------------------------------------------
(* IEEE-754 reference definitions, used by the properties only.            *)

Abs(x) == IF x < 0 THEN 0 - x ELSE x

\* the binary16 encoding classes of a pattern
IsNaN16(h) == (h \div 1024) % 32 = 31 /\ h % 1024 # 0
IsInf16(h) == h % 32768 = 31744
IsZero16(h) == h % 32768 = 0
IsSubnormal16(h) == (h \div 1024) % 32 = 0 /\ h % 1024 # 0
IsNormal16(h) == (h \div 1024) % 32 \in 1..30

\* the real number m * 2^e in lowest terms: <<odd m, e>>, or <<0, 0>>
RECURSIVE Dyadic(_, _)
Dyadic(m, e) ==
    IF m = 0 THEN <<0, 0>>
    ELSE IF m % 2 = 0 THEN Dyadic(m \div 2, e + 1)
    ELSE <<m, e>>

\* the magnitude of a finite binary16 pattern
Value16(h) ==
    IF (h \div 1024) % 32 = 0
    THEN Dyadic(h % 1024, -24)
    ELSE Dyadic(1024 + (h % 1024), ((h \div 1024) % 32) - 25)

\* the magnitude of a finite binary32 value
Value32(f) ==
    IF f.exp_ = 0
    THEN Dyadic(f.frac_, -149)
    ELSE Dyadic(8388608 + f.frac_, f.exp_ - 150)

\* the integer nearest to n / 2^k, the even one when two are equally near
RoundNearestEven(n, k) ==
    CHOOSE q \in {n \div 2 ^ k, n \div 2 ^ k + 1} :
        LET d == 2 * Abs(n - q * 2 ^ k)
        IN  d < 2 ^ k \/ (d = 2 ^ k /\ q % 2 = 0)

\* The magnitude pattern of the binary16 value nearest to |f|, ties to the
\* even fraction, for finite f with |f| < 65536.  With N = 2^23 + frac_ and
\* he = exp_ - 112, |f| = N * 2^(he - 38).  For he >= 1 the binary16 values
\* of [2^(he-15), 2^(he-14)] are q * 2^(he-25), q in 1024..2048, with pattern
\* (he - 1) * 1024 + q.  For he <= 0 the binary16 values of [0, 2^-14] are
\* q * 2^-24, q in 0..1024, with pattern q; below 2^-26 the nearest is 0.
Nearest16(f) ==
    LET he == f.exp_ - 112
        N  == 8388608 + f.frac_
    IN  IF f.exp_ = 0 THEN 0
        ELSE IF he >= 1 THEN (he - 1) * 1024 + RoundNearestEven(N, 13)
        ELSE IF 14 - he > 25 THEN 0
        ELSE RoundNearestEven(N, 14 - he)

----------------------------------------------------------------------------
(* Properties.                                                             *)

\* C1: widening any 16-bit pattern gives the binary32 value equal to the
\* exact binary16 value of the pattern: same sign; zero for zero; infinity
\* for infinity; a NaN for a NaN; f * 2^-24 for a subnormal and
\* (1 + f/1024) * 2^(e-15) for a normal pattern.
C1_WidenExact ==
    pc = "widen" =>
        /\ r32.sign_ = sign16(a)
        /\ IsNaN16(a) => (r32.exp_ = 255 /\ r32.frac_ # 0)
        /\ IsInf16(a) => (r32.exp_ = 255 /\ r32.frac_ = 0)
        /\ IsZero16(a) => (r32.exp_ = 0 /\ r32.frac_ = 0)
        /\ (IsSubnormal16(a) \/ IsNormal16(a)) =>
               (r32.exp_ # 255 /\ Value32(r32) = Value16(a))

\* C2: narrowing a finite binary32 value whose rebiased exponent
\* exp_ - 127 + 15 is at least 0x1F gives the infinity of the same sign.
C2_NarrowOverflow ==
    (pc = "narrow" /\ s.exp_ # 255 /\ s.exp_ - 127 + 15 >= 31) =>
        r16 = s.sign_ * 32768 + 31744

\* C3: narrowing a finite binary32 value of magnitude below 65536 keeps the
\* sign and gives the nearest binary16 magnitude, a tie going to the even
\* fraction and a carry out of the fraction going into the exponent; every
\* magnitude of at most 2^-25 gives zero and every one of at least 65520
\* gives infinity.
C3_RoundNearestEven ==
    (pc = "narrow" /\ s.exp_ <= 142) =>
        /\ sign16(r16) = s.sign_
        /\ r16 % 32768 = Nearest16(s)
        /\ (s.exp_ < 102 \/ (s.exp_ = 102 /\ s.frac_ = 0)) => r16 % 32768 = 0
        /\ (s.exp_ = 142 /\ s.frac_ >= 8384512) => r16 % 32768 = 31744

\* C3 witness: 2.0009765625, halfway between 0x4000 and 0x4001, was rounded
\* to the even 0x4000.
C3_Witness ==
    pc = "narrow" /\ s = [sign_ |-> 0, exp_ |-> 128, frac_ |-> 4096] /\ r16 = 16384

\* C4: narrowing the widening of a zero or normal pattern returns the
\* pattern bit for bit.
C4_RoundTrip ==
    (pc = "roundtrip" /\ (IsNormal16(a) \/ IsZero16(a))) => r16 = a

\* C4 witness: the largest normal pattern made the round trip.
C4_Witness == pc = "roundtrip" /\ a = fp16_max /\ r16 = fp16_max /\ r32.exp_ = 142

\* C5: of is_nan, is_inf, is_normal, zero and subnormal exactly one holds
\* for every 16-bit pattern.
C5_Partition ==
    pc = "classify" =>
        Cardinality({i \in 1..5 :
            \/ i = 1 /\ rb.nan
            \/ i = 2 /\ rb.inf
            \/ i = 3 /\ rb.normal
            \/ i = 4 /\ IsZero16(a)
            \/ i = 5 /\ IsSubnormal16(a)}) = 1

\* C6: when either operand is a NaN pattern, <, <=, >, >= and == are false
\* and != is true.
C6_NaNComparison ==
    (pc = "compare" /\ (IsNaN16(a) \/ IsNaN16(b))) =>
        ~rb.lt /\ ~rb.le /\ ~rb.gt /\ ~rb.ge /\ ~rb.eq /\ rb.ne

\* C6 witness: a NaN was compared with itself.
C6_Witness == pc = "compare" /\ a = fp16_nan /\ b = fp16_nan /\ rb.ne /\ ~rb.eq

\* C7: narrowing a binary32 value of exponent field 0xFF keeps the sign; a
\* NaN gives a binary16 NaN whose fraction is 0x200 together with the top 10
\* bits of the input fraction; an infinity gives exactly 0x7C00 or 0xFC00.
C7_NarrowSpecial ==
    (pc = "narrow" /\ s.exp_ = 255) =>
        /\ sign16(r16) = s.sign_
        /\ s.frac_ # 0 =>
             /\ IsNaN16(r16)
             /\ (r16 \div 512) % 2 = 1
             /\ r16 % 512 = (s.frac_ \div 8192) % 512
        /\ s.frac_ = 0 => r16 = s.sign_ * 32768 + 31744

\* C7 witness: a NaN whose payload lies wholly in the discarded bits became
\* the quiet NaN 0x7E00.
C7_Witness ==
    pc = "narrow" /\ s = [sign_ |-> 0, exp_ |-> 255, frac_ |-> 1] /\ r16 = fp16_nan

\* C8: negation flips the sign bit and nothing else, and negating the result
\* returns the operand.
C8_NegateFlipsSign ==
    pc = "negate" =>
        /\ r16 = (IF a >= 32768 THEN a - 32768 ELSE a + 32768)
        /\ r16 % 32768 = a % 32768
        /\ operator_neg(r16) = a

\* C8 witness: the NaN 0x7E00 was negated to 0xFE00.
C8_Witness == pc = "negate" /\ a = fp16_nan /\ r16 = 65024

\* C9: for operands that are not NaN, fmin returns a value not above either
\* operand and equal to one of them, and different from fmax whenever the
\* operands compare unequal.
C9_FminIsMinimum ==
    (pc = "fmin" /\ ~IsNaN16(a) /\ ~IsNaN16(b)) =>
        /\ operator_le(r16, a)
        /\ operator_le(r16, b)
        /\ operator_eq(r16, a) \/ operator_eq(r16, b)
        /\ operator_ne(a, b) => r16 \notin fmax(a, b)

\* C10 as stated: 65520.0 narrows to 0x7C00, the binary32 nearest to 5.96e-8
\* to 0x0000 and the binary32 nearest to 6.1e-5 to 0x0400.
C10_BoundaryExamples_Original ==
    pc = "narrow" =>
        /\ s = F_65520 => r16 = fp16_infinity
        /\ s = F_5_96eM8 => r16 = fp16_zero
        /\ s = F_6_1eM5 => r16 = fp16_min_positive

\* C10 as amended: 65520.0 narrows to 0x7C00, the binary32 nearest to
\* 5.96e-8 to the smallest subnormal 0x0001 and the binary32 nearest to
\* 6.1e-5 to the largest subnormal 0x03FF.
C10_BoundaryExamples ==
    pc = "narrow" =>
        /\ s = F_65520 => r16 = fp16_infinity
        /\ s = F_5_96eM8 => r16 = fp16_min_positive_subnormal
        /\ s = F_6_1eM5 => r16 = fp16_max_subnormal

\* C10 witness: the binary32 nearest to 5.96e-8 was narrowed to 0x0001.
C10_Witness == pc = "narrow" /\ s = F_5_96eM8 /\ r16 = fp16_min_positive_subnormal

\* C11: the classification predicates agree with the binary16 encoding and
\* with widening: is_nan holds exactly for exponent field 0x1F with a nonzero
\* fraction, which is exactly when the widened value is a NaN; is_inf
\* exactly for 0x7C00 and 0xFC00; is_finite exactly when the exponent field
\* is not 0x1F; is_normal exactly when the exponent field is neither 0 nor
\* 0x1F.  In particular is_nan(fp16_nan), is_inf(fp16_infinity) and
\* is_inf(fp16_infinity_negative) are true and is_finite(fp16_infinity),
\* is_normal(fp16_infinity) and is_normal(fp16_max_subnormal) are false.
C11_ClassifyAgreesWithEncoding ==
    pc = "classify" =>
        /\ rb.nan = IsNaN16(a)
        /\ rb.nan = IsNaN32(ToFloat(a))
        /\ rb.inf = (a = fp16_infinity \/ a = fp16_infinity_negative)
        /\ rb.finite = ((a \div 1024) % 32 # 31)
        /\ rb.normal = IsNormal16(a)
        /\ a = fp16_nan => rb.nan
        /\ a \in {fp16_infinity, fp16_infinity_negative} => rb.inf
        /\ a = fp16_infinity => (~rb.finite /\ ~rb.normal)
        /\ a = fp16_max_subnormal => ~rb.normal

====
